---- MODULE Spec2Model ----
(***************************************************************************)
(* FitTrack: the authentication and per-user scoped persistence layer.     *)
(*                                                                         *)
(* Server (SECURITY_REVIEW.md lines 566-972 hold the server source): an    *)
(* Express process with a directory of JSON files.  Strings that are       *)
(* folded into file names are sequences of one-character strings, so that  *)
(* getKeyPath's sanitisation and the prefix scheme are computed, not       *)
(* assumed.  The extension ".json" is one token: no sanitised name         *)
(* contains a dot, so it can only occur as the suffix.                     *)
(* Time is counted in days.                                                *)
(*                                                                         *)
(* Client: AuthContext.tsx (session manager) and lib/api.ts (fetch layer). *)
(*                                                                         *)
(* View: WorkoutView.tsx and the usePersistentState hook.  An event        *)
(* handler and the render that follows it are one step; a request is       *)
(* handled by the backend in one step and its response returns in another. *)
(***************************************************************************)
EXTENDS Integers, Sequences, FiniteSets, TLC

VARIABLES
    files,      \* server: the .data directory, file name -> parsed content
    pending,    \* server: signup and login handlers suspended at their await
    nextId,     \* server: number of ids randomUUID has handed out
    now,        \* the clock, in days
    issued,     \* tokens that jwt.sign has produced (what clients can hold)
    last,       \* the request handled last: what it was, touched and answered
    own,        \* history: per owner and physical name, what the owner's own
                \*          authenticated PUT/DELETE requests left there
    stored,     \* history: per owner and logical key, the value the owner's
                \*          own PUT requests left there (DELETE removes it)
    signups,    \* history: the signups that succeeded: credentials and identity
    loginFails, \* history: the failed-login responses seen, by cause
    localStorage, \* client: the cached {user, token} (fittrack_user, fittrack_auth_token)
    authUser,   \* client: AuthProvider's user state
    authToken,  \* client: AuthProvider's token state
    isLoading,  \* client: AuthProvider's isLoading state
    rsPc,       \* client: where restoreSession is
    calls,      \* client: the requests that are waiting for their response
    sent,       \* client: the request that lib/api.ts passed to fetch last
    returned,   \* client: what the lib/api.ts function that returned last gave
    mounted,    \* view: WorkoutView is on the page
    state,      \* view: per key, the state of its usePersistentState hook
    currentExerciseIndex, \* view: WorkoutView's currentExerciseIndex state
    fetches,    \* view: the hooks' requests that are on their way
    persisted,  \* view: per key, the value the backend holds for the hooks
    started,    \* view: how many workouts were started (the Date.now() of the ids)
    hookHist,   \* history: per key, what its setter was given last and whether
                \*          its state stands for a load that failed
    handled     \* history: the event handler that ran last and what it did

serverVars == <<files, pending, nextId, now, issued, last, own, stored, signups, loginFails>>

authVars == <<localStorage, authUser, authToken, isLoading, rsPc, calls, sent, returned>>

viewVars == <<mounted, state, currentExerciseIndex, fetches, persisted, started, hookHist, handled>>

clientVars == <<authVars, viewVars>>

vars == <<serverVars, clientVars>>

-----------------------------------------------------------------------------
(* Bounds *)

MaxUsers == 2
MaxClock == 8
MaxPending == 2
MaxTokens == 2
MaxCalls == 2

-----------------------------------------------------------------------------
(* Strings *)

MIN_LENGTH_Seven == 6 + 1

MIN_LENGTH == 6

MIN_LENGTH_ERROR == "Password must be at least 6 characters"

\* lib/validation.ts validatePassword
validatePassword(password) ==
    IF Len(password) < MIN_LENGTH
    THEN [isValid |-> FALSE, error |-> MIN_LENGTH_ERROR]
    ELSE [isValid |-> TRUE, error |-> ""]

ExpiresIn == 7

IdChars == <<"1", "2", "3", "4">>

IdOf(n) == <<IdChars[n]>>

\* the characters of the model's alphabet that match [a-zA-Z0-9_-]
SafeChars == {"u", "s", "e", "r", "k", "1", "2", "3", "4", "-", "_"}

Sanitize(key) == [i \in 1..Len(key) |-> IF key[i] \in SafeChars THEN key[i] ELSE "_"]

JsonExt == <<".json">>

getKeyPath(key) == Sanitize(key) \o JsonExt

usersFilePath == <<"u", "s", "e", "r", "s">> \o JsonExt

UserPrefix == <<"u", "s", "e", "r", "-">>

Prefix(userId) == UserPrefix \o userId \o <<"-">>

ScopedKey(userId, key) == Prefix(userId) \o key

StartsWith(s, p) == Len(s) >= Len(p) /\ SubSeq(s, 1, Len(p)) = p

EndsWith(s, p) == Len(s) >= Len(p) /\ SubSeq(s, Len(s) - Len(p) + 1, Len(s)) = p

\* String.prototype.replace(pattern, '') with a string pattern: the first
\* occurrence only
ReplaceFirst(s, p) ==
    LET occ == {i \in 1..(Len(s) - Len(p) + 1) : SubSeq(s, i, i + Len(p) - 1) = p}
    IN  IF occ = {} THEN s
        ELSE LET i == CHOOSE j \in occ : \A j2 \in occ : j <= j2
             IN  SubSeq(s, 1, i - 1) \o SubSeq(s, i + Len(p), Len(s))

toLowerCase_AsTyped(email) == email

toLowerCase(email) == IF email = "A@x" THEN "a@x" ELSE email

\* bcryptjs: the hash determines the password it was made from
Hash(password) == <<"bcrypt", password>>

Compare(password, passwordHash) == passwordHash = Hash(password)

-----------------------------------------------------------------------------
(* Values *)

EmptyUsers == [i \in {} |-> 0]

NoContent == [val |-> "none", users |-> EmptyUsers]

\* The JSON values of the model, named by their JavaScript literal: two
\* strings, null, false, 0, the empty string, an array and a nested object
JsonValues == {"v1", "v2", "null", "false", "0", "", "[v1]", "{a:{b:null}}"}

\* JSON.stringify(value, null, 2), up to white space
JSONstringify(v) ==
    CASE v = "v1" -> "\"v1\""
      [] v = "v2" -> "\"v2\""
      [] v = "" -> "\"\""
      [] v = "[v1]" -> "[\"v1\"]"
      [] v = "{a:{b:null}}" -> "{\"a\":{\"b\":null}}"
      [] OTHER -> v

\* the text of a file whose write was cut short: JSON.parse throws on it
Truncated == "{"

\* JSON.parse(text), for a text that parses
JSONparse(text) == CHOOSE v \in JsonValues : JSONstringify(v) = text

\* a parsed value in a response
Value(v) == [val |-> v, users |-> EmptyUsers]

\* the content of a data file that holds value v
Data(v) == [val |-> JSONstringify(v), users |-> EmptyUsers]

\* JSON.parse(readFileSync(...)) of a file that parses
Parsed(content) ==
    IF content.val = "none" THEN content ELSE Value(JSONparse(content.val))

Readable(content) == content.val # Truncated

UsersContent(m) == [val |-> "none", users |-> m]

NoUser == [id |-> <<>>, email |-> "", name |-> "", createdAt |-> -1]

NoToken == [userId |-> <<>>, iat |-> -1, exp |-> -1, sig |-> "none"]

NoExport == [f \in {} |-> NoContent]

Public(u) == [id |-> u.id, email |-> u.email, name |-> u.name, createdAt |-> u.createdAt]

Resp(status, error) ==
    [status |-> status, error |-> error, data |-> NoContent, export |-> NoExport,
     user |-> NoUser, token |-> NoToken, keys |-> {}]

\* password, name: the body of a signup or login request.  known: history,
\* the signups that had succeeded when the request was received
NoLast ==
    [op |-> "none", auth |-> NoToken, key |-> <<>>, email |-> "", uid |-> <<>>,
     at |-> 0, ran |-> FALSE, touched |-> {}, resp |-> Resp(0, ""),
     password |-> "", name |-> "", known |-> {}]

Logged(op, auth, key, email, uid, ran, touched, resp) ==
    [op |-> op, auth |-> auth, key |-> key, email |-> email, uid |-> uid,
     at |-> now, ran |-> ran, touched |-> touched, resp |-> resp,
     password |-> "", name |-> "", known |-> {}]

LoggedCred(op, email, password, name, known, touched, resp) ==
    [Logged(op, NoToken, <<>>, email, <<>>, TRUE, touched, resp)
        EXCEPT !.password = password, !.name = name, !.known = known]

-----------------------------------------------------------------------------
(* Credential store *)

\* a missing file gives {}, and so does a file that cannot be read or
\* parsed: the catch logs the error and falls through to "return {}"
loadUsers ==
    IF usersFilePath \in DOMAIN files /\ Readable(files[usersFilePath])
    THEN files[usersFilePath].users
    ELSE EmptyUsers

\* the directory after writing content c to file f
WriteFile(fs, f, c) == [g \in DOMAIN fs \cup {f} |-> IF g = f THEN c ELSE fs[g]]

RemoveFile(fs, f) == [g \in DOMAIN fs \ {f} |-> fs[g]]

saveUsers(users) == WriteFile(files, usersFilePath, UsersContent(users))

\* Object.values(users).find(...): the matching users (find takes the first)
UsersByEmail(email) ==
    {id \in DOMAIN loadUsers : loadUsers[id].email = toLowerCase(email)}


IdIndex(id) == CHOOSE n \in 1..Len(IdChars) : IdOf(n) = id

\* Object.values(users).find((u) => u.email === email.toLowerCase()):
\* the first match in insertion order, which is the order of the ids
findUserByEmail(email) ==
    LET m == UsersByEmail(email)
    IN  loadUsers[CHOOSE id \in m : \A id2 \in m : IdIndex(id) <= IdIndex(id2)]

HasUserByEmail(email) == UsersByEmail(email) # {}

\* undefined, as users[id] gives for an id that the store does not hold
NoStored == [id |-> <<>>, email |-> "", name |-> "", passwordHash |-> <<>>, createdAt |-> -1]

findUserById_Trusting(id) ==
    IF id \in DOMAIN loadUsers THEN loadUsers[id] ELSE [NoStored EXCEPT !.id = id]

\* loadUsers()[id]: the store is read on every call
findUserById(id) == IF id \in DOMAIN loadUsers THEN loadUsers[id] ELSE NoStored

HasUserById(id) == findUserById(id) # NoStored

-----------------------------------------------------------------------------
(* Tokens *)

Sign_SixDays(userId) ==
    [userId |-> userId, iat |-> now, exp |-> now + ExpiresIn - 1, sig |-> "good"]

\* jwt.sign({ userId }, JWT_SECRET, { expiresIn: '7d' })
Sign(userId) == [userId |-> userId, iat |-> now, exp |-> now + ExpiresIn, sig |-> "good"]

\* jwt.verify(token, JWT_SECRET) at time t: the signature, then the expiry
ValidAt(token, t) == token.sig = "good" /\ t < token.exp

JwtVerify(token) == ValidAt(token, now)

\* a token that was not signed with the server's secret
Forged == [userId |-> IdOf(1), iat |-> 0, exp |-> MaxClock + ExpiresIn + 1, sig |-> "bad"]

AuthChoices == {NoToken, Forged} \cup issued

\* the verifyToken middleware: a response when it rejects, status 0 when it
\* calls next()
verifyToken(auth) ==
    IF auth = NoToken THEN Resp(401, "Missing authorization token")
    ELSE IF JwtVerify(auth) THEN Resp(0, "")
    ELSE Resp(401, "Invalid or expired token")

Rejected(op, auth, key) ==
    /\ verifyToken(auth).status # 0
    /\ last' = Logged(op, auth, key, "", <<>>, FALSE, {}, verifyToken(auth))
    /\ UNCHANGED <<files, pending, nextId, now, issued, own, stored, signups, loginFails, clientVars>>

-----------------------------------------------------------------------------
(* Scoped key-value store *)

Values == {"v1", "v2"}

\* two logical keys that differ in a character outside [a-zA-Z0-9_-]
KeyNames == {<<"k", ".">>, <<"k", "_">>}

KeyValues == {"v1", "null"}

\* app.get('/api/data/:key', verifyToken, ...)
GetData(auth, key) ==
    \/ Rejected("get", auth, key)
    \/ /\ verifyToken(auth).status = 0
       /\ LET userId   == auth.userId
              filePath == getKeyPath(ScopedKey(userId, key))
              resp     == IF filePath \notin DOMAIN files
                          THEN Resp(404, "Key not found")
                          ELSE IF ~Readable(files[filePath])
                          THEN Resp(500, "Internal server error")
                          ELSE [Resp(200, "") EXCEPT !.data = Parsed(files[filePath])]
          IN  last' = Logged("get", auth, key, "", userId, TRUE, {filePath}, resp)
       /\ UNCHANGED <<files, pending, nextId, now, issued, own, stored, signups, loginFails, clientVars>>

\* app.put('/api/data/:key', verifyToken, ...); data is "undefined" when the
\* body has no data field
PutData(auth, key, data) ==
    \/ Rejected("put", auth, key)
    \/ /\ verifyToken(auth).status = 0
       /\ data = "undefined"
       /\ last' = Logged("put", auth, key, "", auth.userId, TRUE, {},
                         Resp(400, "Missing data field"))
       /\ UNCHANGED <<files, pending, nextId, now, issued, own, stored, signups, loginFails, clientVars>>
    \/ /\ verifyToken(auth).status = 0
       /\ data # "undefined"
       /\ LET userId   == auth.userId
              filePath == getKeyPath(ScopedKey(userId, key))
          IN  /\ files' = WriteFile(files, filePath, Data(data))
              /\ own' = WriteFile(own, filePath, Value(data))
              /\ stored' = WriteFile(stored, <<userId, key>>, data)
              /\ last' = Logged("put", auth, key, "", userId, TRUE, {filePath},
                                [Resp(200, "") EXCEPT !.data = Value(data)])
       /\ UNCHANGED <<pending, nextId, now, issued, signups, loginFails, clientVars>>

\* app.delete('/api/data/:key', verifyToken, ...)
DeleteData(auth, key) ==
    \/ Rejected("delete", auth, key)
    \/ /\ verifyToken(auth).status = 0
       /\ LET userId   == auth.userId
              filePath == getKeyPath(ScopedKey(userId, key))
          IN  /\ files' = RemoveFile(files, filePath)
              /\ own' = RemoveFile(own, filePath)
              /\ stored' = RemoveFile(stored, <<userId, key>>)
              /\ last' = Logged("delete", auth, key, "", userId, TRUE, {filePath},
                                Resp(200, ""))
       /\ UNCHANGED <<pending, nextId, now, issued, signups, loginFails, clientVars>>

\* app.get('/api/keys', verifyToken, ...)
ListKeys(auth) ==
    \/ Rejected("keys", auth, <<>>)
    \/ /\ verifyToken(auth).status = 0
       /\ LET userId == auth.userId
              prefix == Prefix(userId)
              mine   == {f \in DOMAIN files : EndsWith(f, JsonExt) /\ StartsWith(f, prefix)}
              keys   == {ReplaceFirst(ReplaceFirst(f, JsonExt), prefix) : f \in mine}
          IN  last' = Logged("keys", auth, <<>>, "", userId, TRUE, mine,
                             [Resp(200, "") EXCEPT !.keys = keys])
       /\ UNCHANGED <<files, pending, nextId, now, issued, own, stored, signups, loginFails, clientVars>>

\* app.get('/api/health', ...)
Health ==
    /\ last' = Logged("health", NoToken, <<>>, "", <<>>, TRUE, {}, Resp(200, ""))
    /\ UNCHANGED <<files, pending, nextId, now, issued, own, stored, signups, loginFails, clientVars>>

\* app.post('/api/export', ...): no middleware; every .json file of the
\* directory is read and returned under its name without the extension
Export(auth) ==
    LET all  == {f \in DOMAIN files : EndsWith(f, JsonExt)}
        keys == {ReplaceFirst(f, JsonExt) : f \in all}
        exportData == [k \in keys |->
                          Parsed(files[CHOOSE f \in all : ReplaceFirst(f, JsonExt) = k])]
        resp == IF \E f \in all : ~Readable(files[f])
                THEN Resp(500, "Internal server error")
                ELSE [Resp(200, "") EXCEPT !.export = exportData]
    IN  /\ last' = Logged("export", auth, <<>>, "", <<>>, TRUE, all, resp)
        /\ UNCHANGED <<files, pending, nextId, now, issued, own, stored, signups, loginFails, clientVars>>

\* the bodies POST /api/import is sent: no data, or an object of one entry.
\* An entry whose name is folded to the users file carries a users object.
ImportKeys == {<<"u", "s", "e", "r", "s">>, ScopedKey(IdOf(1), <<"k">>)}

ImportUsers ==
    {EmptyUsers,
     [i \in {IdOf(1)} |-> [id |-> IdOf(1), email |-> "a@x", name |-> "A",
                           passwordHash |-> Hash("wrong12"), createdAt |-> 0]]}

ImportEntries ==
    {e \in [key : ImportKeys, content : {Data(v) : v \in Values} \cup {UsersContent(m) : m \in ImportUsers}] :
        (getKeyPath(e.key) = usersFilePath) <=> (e.content.val = "none")}

DataEntries == {e \in ImportEntries : e.content.val # "none"}

UsersEntries == {e \in ImportEntries : e.content.val = "none"}

\* app.post('/api/import', ...): no middleware; each entry is written to
\* getKeyPath(key) with a plain writeFileSync
Import(auth, hasData, entry) ==
    \/ /\ ~hasData
       /\ last' = Logged("import", auth, <<>>, "", <<>>, TRUE, {},
                         Resp(400, "Invalid data format"))
       /\ UNCHANGED <<files, pending, nextId, now, issued, own, stored, signups, loginFails, clientVars>>
    \/ /\ hasData
       /\ LET filePath == getKeyPath(entry.key)
          IN  /\ files' = WriteFile(files, filePath, entry.content)
              /\ last' = Logged("import", auth, entry.key, "", <<>>, TRUE, {filePath},
                                Resp(200, ""))
       /\ UNCHANGED <<pending, nextId, now, issued, own, stored, signups, loginFails, clientVars>>

-----------------------------------------------------------------------------
(* Identity service *)

Emails == {"a@x", "A@x", "b@x"}

Passwords == {"secret1", "wrong12"}

Names == {"A"}

FreeSlot == CHOOSE r \in 1..(MaxPending + 1) : \A p \in pending : p.rid # r

\* known: history, the signups that had succeeded when the request came in
Suspended(kind, email, password, name, user) ==
    [rid |-> FreeSlot, kind |-> kind, email |-> email, password |-> password,
     name |-> name, user |-> user, known |-> signups]

\* app.post('/api/auth/signup', ...) up to "await bcryptjs.hash(password, 10)"
SignupStart(email, password, name) ==
    /\ UNCHANGED <<files, nextId, now, issued, own, stored, signups, loginFails, clientVars>>
    /\ IF email = "" \/ password = "" \/ name = ""
       THEN /\ last' = LoggedCred("signup", email, password, name, signups, {},
                              Resp(400, "Missing required fields"))
            /\ UNCHANGED pending
       ELSE IF Len(password) < MIN_LENGTH
       THEN /\ last' = LoggedCred("signup", email, password, name, signups, {},
                              Resp(400, MIN_LENGTH_ERROR))
            /\ UNCHANGED pending
       ELSE IF HasUserByEmail(email)
       THEN /\ last' = LoggedCred("signup", email, password, name, signups, {usersFilePath},
                              Resp(409, "User already exists"))
            /\ UNCHANGED pending
       ELSE /\ Cardinality(pending) < MaxPending
            /\ pending' = pending \cup {Suspended("signup", email, password, name, NoStored)}
            /\ UNCHANGED last

\* the store as it was when request p was received (without import: the
\* identities of the signups that had succeeded)
UsersRead_AtReceipt(p) ==
    [i \in {id \in DOMAIN loadUsers : \E s \in p.known : s.id = id} |-> loadUsers[i]]

\* "const users = loadUsers()" of the signup handler: after the await
UsersRead(p) == loadUsers

\* the rest of the signup handler, after the hash has been computed
SignupFinish(p) ==
    /\ p.kind = "signup"
    /\ nextId < MaxUsers
    /\ Cardinality(issued \cup {Sign(IdOf(nextId + 1))}) <= MaxTokens
    /\ LET userId == IdOf(nextId + 1)
           users  == UsersRead(p)
           user   == [id |-> userId, email |-> toLowerCase(p.email), name |-> p.name,
                      passwordHash |-> Hash(p.password), createdAt |-> now]
           token  == Sign(userId)
       IN  /\ files' = saveUsers([i \in DOMAIN users \cup {userId} |->
                                    IF i = userId THEN user ELSE users[i]])
           /\ issued' = issued \cup {token}
           /\ signups' = signups \cup
                  {[email |-> p.email, password |-> p.password, id |-> userId]}
           /\ last' = LoggedCred("signup", p.email, p.password, p.name, p.known,
                                 {usersFilePath},
                                 [Resp(201, "") EXCEPT !.user = Public(user), !.token = token])
    /\ nextId' = nextId + 1
    /\ pending' = pending \ {p}
    /\ UNCHANGED <<now, own, stored, loginFails, clientVars>>

\* the two answers of a login that fails on the credentials
NoSuchUserResp_Telling == Resp(404, "User not found")

NoSuchUserResp == Resp(401, "Invalid credentials")

WrongPasswordResp == Resp(401, "Invalid credentials")

MissingLoginResp == Resp(400, "Missing email or password")

\* what a failed login looked like: the cause, the password sent, the answer
Failure(cause, password, resp) == [cause |-> cause, password |-> password, resp |-> resp]

\* app.post('/api/auth/login', ...) up to "await bcryptjs.compare(...)"
LoginStart(email, password) ==
    /\ UNCHANGED <<files, nextId, now, issued, own, stored, signups, clientVars>>
    /\ IF email = "" \/ password = ""
       THEN /\ last' = LoggedCred("login", email, password, "", signups, {}, MissingLoginResp)
            /\ loginFails' =
                   IF email = "" THEN loginFails
                   ELSE loginFails \cup
                        {Failure(IF HasUserByEmail(email) THEN "wrong password"
                                 ELSE "no such user", password, MissingLoginResp)}
            /\ UNCHANGED pending
       ELSE IF ~HasUserByEmail(email)
       THEN /\ last' = LoggedCred("login", email, password, "", signups, {usersFilePath},
                                  NoSuchUserResp)
            /\ loginFails' = loginFails \cup {Failure("no such user", password, NoSuchUserResp)}
            /\ UNCHANGED pending
       ELSE /\ Cardinality(pending) < MaxPending
            /\ pending' = pending \cup
                   {Suspended("login", email, password, "", findUserByEmail(email))}
            /\ UNCHANGED <<last, loginFails>>

\* the rest of the login handler, after the comparison has been computed
LoginFinish(p) ==
    /\ p.kind = "login"
    /\ pending' = pending \ {p}
    /\ UNCHANGED <<files, nextId, now, own, stored, signups, clientVars>>
    /\ IF ~Compare(p.password, p.user.passwordHash)
       THEN /\ last' = LoggedCred("login", p.email, p.password, "", p.known, {},
                                  WrongPasswordResp)
            /\ loginFails' = loginFails \cup
                   {Failure("wrong password", p.password, WrongPasswordResp)}
            /\ UNCHANGED issued
       ELSE /\ Cardinality(issued \cup {Sign(p.user.id)}) <= MaxTokens
            /\ issued' = issued \cup {Sign(p.user.id)}
            /\ last' = LoggedCred("login", p.email, p.password, "", p.known, {},
                                  [Resp(200, "") EXCEPT !.user = Public(p.user),
                                                        !.token = Sign(p.user.id)])
            /\ UNCHANGED loginFails

\* app.post('/api/auth/verify', verifyToken, ...)
Verify(auth) ==
    \/ Rejected("verify", auth, <<>>)
    \/ /\ verifyToken(auth).status = 0
       /\ LET userId == auth.userId
              user   == findUserById(userId)
              resp   == IF user = NoStored
                        THEN Resp(404, "User not found")
                        ELSE [Resp(200, "") EXCEPT !.user = Public(user)]
          IN  last' = Logged("verify", auth, <<>>, "", userId, TRUE, {usersFilePath}, resp)
       /\ UNCHANGED <<files, pending, nextId, now, issued, own, stored, signups, loginFails, clientVars>>

\* app.post('/api/auth/logout', verifyToken, ...)
Logout(auth) ==
    \/ Rejected("logout", auth, <<>>)
    \/ /\ verifyToken(auth).status = 0
       /\ last' = Logged("logout", auth, <<>>, "", auth.userId, TRUE, {}, Resp(200, ""))
       /\ UNCHANGED <<files, pending, nextId, now, issued, own, stored, signups, loginFails, clientVars>>

\* a day passes
Tick ==
    /\ now < MaxClock
    /\ now' = now + 1
    /\ UNCHANGED <<files, pending, nextId, issued, last, own, stored, signups, loginFails, clientVars>>

-----------------------------------------------------------------------------
(* Crashes of the server process while a handler writes *)

\* `${filePath}.tmp`
TempPath(filePath) == filePath \o <<".tmp">>

\* what a request that the process died in is logged with: no response
Crashed == Resp(0, "crashed")

\* where a temp-then-rename write can be cut: inside writeFileSync(tempPath)
\* or between it and renameSync
Stages == {"writing", "written"}

\* the file that a cut write leaves: a prefix of the text when the process
\* dies inside writeFileSync, the whole text after it
Left(stage, content) ==
    IF stage = "writing" THEN [val |-> Truncated, users |-> EmptyUsers] ELSE content

\* PUT /api/data/:key, the process dies before renameSync; the requests that
\* were being handled die with it
PutCrash(auth, key, data, stage) ==
    /\ verifyToken(auth).status = 0
    /\ data # "undefined"
    /\ LET userId   == auth.userId
           filePath == getKeyPath(ScopedKey(userId, key))
       IN  /\ files' = WriteFile(files, TempPath(filePath), Left(stage, Data(data)))
           /\ last' = Logged("put", auth, key, "", userId, TRUE, {TempPath(filePath)}, Crashed)
    /\ pending' = {}
    /\ UNCHANGED <<nextId, now, issued, own, stored, signups, loginFails, clientVars>>

\* the signup handler, the process dies in saveUsers before renameSync
SignupCrash(p, stage) ==
    /\ p.kind = "signup"
    /\ nextId < MaxUsers
    /\ LET userId == IdOf(nextId + 1)
           users  == UsersRead(p)
           user   == [id |-> userId, email |-> toLowerCase(p.email), name |-> p.name,
                      passwordHash |-> Hash(p.password), createdAt |-> now]
           all    == [i \in DOMAIN users \cup {userId} |->
                         IF i = userId THEN user ELSE users[i]]
       IN  /\ files' = WriteFile(files, TempPath(usersFilePath),
                                 Left(stage, UsersContent(all)))
           /\ last' = LoggedCred("signup", p.email, p.password, p.name, p.known,
                                 {TempPath(usersFilePath)}, Crashed)
    /\ nextId' = nextId + 1
    /\ pending' = {}
    /\ UNCHANGED <<now, issued, own, stored, signups, loginFails, clientVars>>

\* POST /api/import, the process dies inside writeFileSync(filePath, ...)
ImportCrash(auth, entry) ==
    /\ LET filePath == getKeyPath(entry.key)
       IN  /\ files' = WriteFile(files, filePath, Left("writing", entry.content))
           /\ last' = Logged("import", auth, entry.key, "", <<>>, TRUE, {filePath}, Crashed)
    /\ pending' = {}
    /\ UNCHANGED <<nextId, now, issued, own, stored, signups, loginFails, clientVars>>

-----------------------------------------------------------------------------
(* Client session manager: contexts/AuthContext.tsx *)

NoSession == [user |-> "null", token |-> "null"]

\* the {user, token} pairs the server hands to this browser
Creds == {[user |-> "u1", token |-> "t1"], [user |-> "u2", token |-> "t2"]}

\* the user the server answers a successful verification of a token with
TokenOwner(t) == IF t = "t1" THEN "u1" ELSE "u2"

\* isAuthenticated: !!user && !!token
isAuthenticated == authUser # "null" /\ authToken # "null"

FreeCall == CHOOSE c \in 1..(MaxCalls + 1) : \A x \in calls : x.cid # c

Call(kind, tok, key) == [cid |-> FreeCall, kind |-> kind, token |-> tok, key |-> key]

\* restoreSession, up to "await verifyTokenFn(savedToken)"
Mount ==
    /\ rsPc = "start"
    /\ IF localStorage.token # "null" /\ localStorage.user # "null"
       THEN /\ authToken' = localStorage.token
            /\ authUser' = localStorage.user
            /\ rsPc' = "verifying"
            /\ UNCHANGED isLoading
       ELSE /\ isLoading' = FALSE
            /\ rsPc' = "done"
            /\ UNCHANGED <<authToken, authUser>>
    /\ UNCHANGED <<localStorage, calls, sent, returned, serverVars, viewVars>>

\* restoreSession, from the return of verifyTokenFn: it throws when the
\* response is not ok or fetch rejects
RestoreReturn(ok) ==
    /\ rsPc = "verifying"
    /\ IF ok
       THEN /\ rsPc' = "done"
            /\ UNCHANGED localStorage
       ELSE /\ localStorage' = NoSession
            /\ rsPc' = "failed"
    /\ isLoading' = FALSE
    /\ UNCHANGED <<authUser, authToken, calls, sent, returned, serverVars, viewVars>>

\* login and signup: the form is shown when the app is neither loading nor
\* authenticated (App.tsx)
Submit(kind) ==
    /\ ~isLoading /\ ~isAuthenticated
    /\ Cardinality(calls) < MaxCalls
    /\ calls' = calls \cup {Call(kind, "null", <<>>)}
    /\ UNCHANGED <<localStorage, authUser, authToken, isLoading, rsPc, sent, returned,
                   serverVars, viewVars>>

\* login and signup, from the response: cred is NoSession when the response
\* is not ok
SubmitReturn(c, cred) ==
    /\ c.kind \in {"login", "signup"}
    /\ calls' = calls \ {c}
    /\ IF cred = NoSession
       THEN UNCHANGED <<authUser, authToken, localStorage>>
       ELSE /\ authUser' = cred.user
            /\ authToken' = cred.token
            /\ localStorage' = cred
    /\ UNCHANGED <<isLoading, rsPc, sent, returned, serverVars, viewVars>>

\* logout, from the Log Out button of the authenticated app
logout ==
    /\ ~isLoading /\ isAuthenticated
    /\ authUser' = "null"
    /\ authToken' = "null"
    /\ localStorage' = NoSession
    /\ UNCHANGED <<isLoading, rsPc, calls, sent, returned, serverVars, viewVars>>

\* verifyToken of the context, up to "await verifyTokenFn(token)"
VerifyTokenCall ==
    /\ authToken # "null"
    /\ Cardinality(calls) < MaxCalls
    /\ calls' = calls \cup {Call("verify", authToken, <<>>)}
    /\ UNCHANGED <<localStorage, authUser, authToken, isLoading, rsPc, sent, returned,
                   serverVars, viewVars>>

\* verifyToken of the context, from the return of verifyTokenFn
VerifyTokenReturn(c, ok) ==
    /\ c.kind = "verify"
    /\ calls' = calls \ {c}
    /\ IF ok
       THEN /\ authUser' = TokenOwner(c.token)
            /\ UNCHANGED <<authToken, localStorage>>
       ELSE /\ authUser' = "null"
            /\ authToken' = "null"
            /\ localStorage' = NoSession
    /\ UNCHANGED <<isLoading, rsPc, sent, returned, serverVars, viewVars>>

\* the page is loaded again: the cache stays, everything in memory is new
Reload ==
    /\ rsPc \in {"done", "failed"}
    /\ authUser' = "null"
    /\ authToken' = "null"
    /\ isLoading' = TRUE
    /\ rsPc' = "start"
    /\ calls' = {}
    /\ UNCHANGED <<localStorage, sent, returned, serverVars, viewVars>>

-----------------------------------------------------------------------------
(* Client fetch layer: lib/api.ts *)

NoRequest == [fn |-> "none", method |-> "", key |-> <<>>, authorization |-> "null"]

\* status, data: the response that the function was given (history)
NoReturn == [fn |-> "none", status |-> 0, data |-> "", result |-> ""]

\* the request each function passes to fetch: none of them sets a header
\* other than Content-Type
Fetch(fn, method, key) == [fn |-> fn, method |-> method, key |-> key, authorization |-> "null"]

MethodOf(fn) ==
    IF fn = "apiSet" THEN "PUT" ELSE IF fn = "apiDelete" THEN "DELETE" ELSE "GET"

ApiFunctions == {"apiGet", "apiSet", "apiDelete", "apiListKeys"}

\* apiGet, apiSet, apiDelete, apiListKeys up to "await fetch(...)"; the views
\* that call them are rendered in the authenticated app only (App.tsx)
ApiCall(fn, key) ==
    /\ ~isLoading /\ isAuthenticated
    /\ Cardinality(calls) < MaxCalls
    /\ sent' = Fetch(fn, MethodOf(fn), IF fn = "apiListKeys" THEN <<>> ELSE key)
    /\ calls' = calls \cup {Call(fn, "null", IF fn = "apiListKeys" THEN <<>> ELSE key)}
    /\ UNCHANGED <<localStorage, authUser, authToken, isLoading, rsPc, returned, serverVars, viewVars>>

\* what the function gives for a response status (0: fetch rejected) and the
\* data field of the response body; "null" is JavaScript's null
ApiResult(fn, status, data) ==
    IF fn = "apiGet"
    THEN IF status = 200 THEN data ELSE "null"
    ELSE IF fn = "apiListKeys"
    THEN IF status = 200 THEN "keys" ELSE "empty"
    ELSE IF status = 200 THEN "ok" ELSE "throws"

Statuses == {200, 401, 404, 500, 0}

\* the data field of the body of a response: a stored value in the 200 of
\* GET /api/data/:key, absent ("undefined") in the error responses
Bodies(fn, status) ==
    IF fn = "apiGet" /\ status = 200 THEN KeyValues ELSE {"undefined"}

ApiReturn(c, status, data) ==
    /\ c.kind \in ApiFunctions
    /\ data \in Bodies(c.kind, status)
    /\ calls' = calls \ {c}
    /\ returned' = [fn |-> c.kind, status |-> status, data |-> data,
                    result |-> ApiResult(c.kind, status, data)]
    /\ UNCHANGED <<localStorage, authUser, authToken, isLoading, rsPc, sent, serverVars, viewVars>>

-----------------------------------------------------------------------------
(* The workout view: hooks/use-persistent-state.ts and WorkoutView.tsx.    *)
(* A hook value is a sequence of sessions: the empty sequence is null (and *)
(* the empty array), a one-element sequence is a session object. The      *)
(* 'workout-plans' hook is read only; a session carries the set counts of  *)
(* the plan that its planId names.                                         *)

MaxWorkouts == 1

\* the PUT requests that can be on their way at a time
MaxInFlight == 3

Null == <<>>

\* WorkoutView.tsx 17-18: the hooks whose setter the view uses
Hooks == {"workout-sessions", "active-session"}

\* the defaultValue argument is an array literal, a new object in each render
DefaultIsLiteral(h) == h = "workout-sessions"

\* the plans of the plan list, each the number of sets of its exercises
Plans == {<<2, 1>>, <<1>>}

\* startWorkout's newSession
NewSession(id, plan) ==
    [id |-> id, plan |-> plan, done |-> [i \in 1..Len(plan) |-> 0], status |-> "in-progress"]

\* SetStateAction<T>: a value, or one of the updater functions the view passes
Plain(v) == [fn |-> "value", value |-> v, index |-> 0]

CompleteSetFn(i) == [fn |-> "completeSet", value |-> Null, index |-> i]

CompletedFn == [fn |-> "completed", value |-> Null, index |-> 0]

AppendFn(v) == [fn |-> "append", value |-> v, index |-> 0]

\* typeof value === 'function' ? value(state) : value
Apply(a, current) ==
    CASE a.fn = "value" -> a.value
      [] a.fn = "completeSet" ->
            IF current = Null THEN Null
            ELSE <<[current[1] EXCEPT !.done[a.index + 1] = @ + 1]>>
      [] a.fn = "completed" ->
            IF current = Null THEN Null
            ELSE <<[current[1] EXCEPT !.status = "completed"]>>
      [] a.fn = "append" -> current \o a.value

\* what a call leaves of the object that the setter's closure holds:
\* completeSet pushes into the completedSets array that its copy shares
Mutated(a, closure) == IF a.fn = "completeSet" THEN Apply(a, closure) ELSE closure

\* the nextState of each of a handler's calls of one setter: every call
\* computes from the state of the render the handler belongs to
RECURSIVE NextStates(_, _)
NextStates(as, closure) ==
    IF as = <<>> THEN <<>>
    ELSE <<Apply(Head(as), closure)>> \o NextStates(Tail(as), Mutated(Head(as), closure))

\* the calls applied in order, each to the result of the one before
RECURSIVE InOrder(_, _)
InOrder(as, before) ==
    IF as = <<>> THEN before ELSE InOrder(Tail(as), Apply(Head(as), before))

GetRequest(h) ==
    [method |-> "GET", key |-> h, value |-> Null, stage |-> "sent",
     failed |-> FALSE, fromDefault |-> FALSE]

PutRequest(h, v, fromDefault) ==
    [method |-> "PUT", key |-> h, value |-> v, stage |-> "sent",
     failed |-> FALSE, fromDefault |-> fromDefault]

\* a render: the load effect runs again when defaultValue is a new object;
\* its cleanup makes the hook ignore the response of the load before
Render(F) ==
    {r \in F : ~(r.method = "GET" /\ DefaultIsLiteral(r.key))}
        \cup {GetRequest(h) : h \in {k \in Hooks : DefaultIsLiteral(k)}}

NeverSet == [called |-> FALSE, value |-> Null, loadFailed |-> FALSE]

\* a handler that calls no setter
NoCalls == [h \in Hooks |-> <<>>]

\* running: the handler ran in the step that led here
NoHandled == [op |-> "", running |-> FALSE, calls |-> NoCalls, body |-> [h \in Hooks |-> Null]]

\* no view is on the page
ViewInit ==
    /\ mounted = FALSE
    /\ state = [h \in Hooks |-> Null]
    /\ currentExerciseIndex = 0
    /\ fetches = {}
    /\ persisted = [h \in Hooks |-> Null]
    /\ started = 0
    /\ hookHist = [h \in Hooks |-> NeverSet]
    /\ handled = NoHandled

\* the first render: useState(defaultValue), and the load effect of each hook
MountView ==
    /\ ~mounted
    /\ mounted' = TRUE
    /\ fetches' = {GetRequest(h) : h \in Hooks}
    /\ handled' = [handled EXCEPT !.running = FALSE]
    /\ UNCHANGED <<state, currentExerciseIndex, persisted, started, hookHist,
                   serverVars, authVars>>

\* the backend handles a request; apiGet gives null for a missing key and for
\* a request that failed, apiSet's failure is only logged
Deliver(r, ok) ==
    /\ r \in fetches /\ r.stage = "sent"
    /\ IF r.method = "GET"
       THEN /\ fetches' = (fetches \ {r}) \cup
                    {[r EXCEPT !.stage = "answered",
                               !.value = IF ok THEN persisted[r.key] ELSE Null,
                               !.failed = ~ok]}
            /\ UNCHANGED persisted
       ELSE /\ fetches' = fetches \ {r}
            /\ persisted' = IF ok THEN [persisted EXCEPT ![r.key] = r.value] ELSE persisted
    /\ handled' = [handled EXCEPT !.running = FALSE]
    /\ UNCHANGED <<mounted, state, currentExerciseIndex, started, hookHist,
                   serverVars, authVars>>

\* loadData after "await apiGet": setState(data ?? defaultValue) and
\* setIsLoading(false), and the render that follows
LoadReturn(r) ==
    /\ r \in fetches /\ r.method = "GET" /\ r.stage = "answered"
    /\ state' = [state EXCEPT ![r.key] = r.value]
    /\ fetches' = Render(fetches \ {r})
    /\ hookHist' = [hookHist EXCEPT ![r.key].loadFailed = r.failed]
    /\ handled' = [handled EXCEPT !.running = FALSE]
    /\ UNCHANGED <<mounted, currentExerciseIndex, persisted, started,
                   serverVars, authVars>>

\* the PUT requests of a handler's calls of the setter of h
Puts(h, as) ==
    {PutRequest(h, NextStates(as, state[h])[i],
                hookHist[h].loadFailed /\ as[i].fn # "value") : i \in 1..Len(as)}

\* an event handler that calls setters: as[h] are its calls of the setter of
\* h, in order. setState(nextState) of the last call is what the render shows
SetterCalls(op, as) ==
    /\ state' = [h \in Hooks |->
                    IF as[h] = <<>> THEN state[h]
                    ELSE NextStates(as[h], state[h])[Len(as[h])]]
    /\ fetches' = Render(fetches \cup UNION {Puts(h, as[h]) : h \in Hooks})
    /\ Cardinality({r \in fetches' : r.method = "PUT"}) <= MaxInFlight
    /\ hookHist' = [h \in Hooks |->
                    IF as[h] = <<>> THEN hookHist[h]
                    ELSE [called |-> TRUE, value |-> state'[h],
                          loadFailed |-> hookHist[h].loadFailed
                                            /\ as[h][Len(as[h])].fn # "value"]]
    /\ handled' = [op |-> op, running |-> TRUE, calls |-> as,
                    body |-> [h \in Hooks |->
                                IF as[h] = <<>> THEN Null
                                ELSE NextStates(as[h], state[h])[Len(as[h])]]]
    /\ UNCHANGED <<mounted, persisted, serverVars, authVars>>

\* the PUT requests of the hooks have all been handled
AllSaved == \A r \in fetches : r.method # "PUT"

ActiveSession == "active-session"

WorkoutSessions == "workout-sessions"

\* the session of the render: activeSession
activeSession == state[ActiveSession][1]

\* the view shows the current exercise: there is a session and the index is
\* one of its plan's exercises
Shown ==
    /\ mounted
    /\ state[ActiveSession] # Null
    /\ currentExerciseIndex < Len(activeSession.plan)

completedSetsCount == activeSession.done[currentExerciseIndex + 1]

totalSets == activeSession.plan[currentExerciseIndex + 1]

\* the "Start Workout" button of a plan; the plan list is what the view shows
\* when there is no active session
startWorkout(plan) ==
    /\ mounted /\ state[ActiveSession] = Null
    /\ started < MaxWorkouts
    /\ SetterCalls("startWorkout",
            [NoCalls EXCEPT ![ActiveSession] = <<Plain(<<NewSession(started + 1, plan)>>)>>])
    /\ currentExerciseIndex' = 0
    /\ started' = started + 1

\* SetTracker's "Complete Set" button, there while currentSet <= sets
completeSet ==
    /\ Shown
    /\ completedSetsCount + 1 <= totalSets
    /\ SetterCalls("completeSet",
            [NoCalls EXCEPT ![ActiveSession] = <<CompleteSetFn(currentExerciseIndex)>>])
    /\ UNCHANGED <<currentExerciseIndex, started>>

finishWorkout ==
    /\ SetterCalls("finishWorkout",
            [NoCalls EXCEPT
                ![ActiveSession] = <<CompletedFn, Plain(Null)>>,
                ![WorkoutSessions] =
                    <<AppendFn(<<[activeSession EXCEPT !.status = "completed"]>>)>>])
    /\ UNCHANGED <<currentExerciseIndex, started>>

\* a handler that only sets the index
SetCurrentExerciseIndex(op, i) ==
    /\ currentExerciseIndex' = i
    /\ fetches' = Render(fetches)
    /\ handled' = [NoHandled EXCEPT !.op = op, !.running = TRUE]
    /\ UNCHANGED <<mounted, state, persisted, started, hookHist, serverVars, authVars>>

\* the button's disabled attribute
Disabled_Never == FALSE

Disabled == completedSetsCount < totalSets

\* the "Next Exercise" / "Finish Workout" button
NextButton ==
    /\ Shown
    /\ ~Disabled
    /\ IF currentExerciseIndex < Len(activeSession.plan) - 1
       THEN SetCurrentExerciseIndex("next", currentExerciseIndex + 1)
       ELSE finishWorkout

\* the "Previous" button
PreviousButton ==
    /\ Shown
    /\ currentExerciseIndex # 0
    /\ SetCurrentExerciseIndex("previous", currentExerciseIndex - 1)

-----------------------------------------------------------------------------
(* The server *)

ServerInit ==
    /\ files = [f \in {} |-> NoContent]
    /\ pending = {}
    /\ nextId = 0
    /\ now = 0
    /\ issued = {}
    /\ last = NoLast
    /\ own = [f \in {} |-> NoContent]
    /\ stored = [x \in {} |-> ""]
    /\ signups = {}
    /\ loginFails = {}

\* the page before its first render; the cache is what an earlier visit left
ClientInit ==
    /\ localStorage \in {NoSession} \cup Creds
    /\ authUser = "null"
    /\ authToken = "null"
    /\ isLoading = TRUE
    /\ rsPc = "start"
    /\ calls = {}
    /\ sent = NoRequest
    /\ returned = NoReturn
    /\ ViewInit

\* the server on its own: no browser is open
Init ==
    /\ ServerInit
    /\ localStorage = NoSession
    /\ authUser = "null"
    /\ authToken = "null"
    /\ isLoading = TRUE
    /\ rsPc = "start"
    /\ calls = {}
    /\ sent = NoRequest
    /\ returned = NoReturn
    /\ ViewInit

\* The store: the data endpoints, the bulk endpoints and the signups that
\* give their callers an identity (one at a time).  One logical key is
\* enough to tell the owners' records apart.
StoreKeys == {<<"k">>}

StoreEmails == {"a@x", "b@x"}

Anonymous == {NoToken, Forged}

NextStore ==
    \/ \E auth \in AuthChoices, key \in StoreKeys : GetData(auth, key)
    \/ \E auth \in AuthChoices, key \in StoreKeys, data \in Values \cup {"undefined"} :
           PutData(auth, key, data)
    \/ \E auth \in AuthChoices, key \in StoreKeys : DeleteData(auth, key)
    \/ \E auth \in AuthChoices : ListKeys(auth)
    \/ \E auth \in Anonymous : Export(auth)
    \/ \E auth \in Anonymous, hasData \in BOOLEAN, entry \in ImportEntries :
           Import(auth, hasData, entry)
    \/ \E email \in StoreEmails : pending = {} /\ SignupStart(email, "secret1", "A")
    \/ \E p \in pending : SignupFinish(p)

SpecStore == Init /\ [][NextStore]_vars

\* Accounts: their creation and verification, with the two endpoints that
\* have no middleware
AuthEmails == {"a@x", "A@x"}

NextAuth ==
    \/ \E email \in AuthEmails \cup {""}, password \in {"secret1", "short", ""},
          name \in Names \cup {""} : SignupStart(email, password, name)
    \/ \E p \in pending : SignupFinish(p)
    \/ \E auth \in AuthChoices : Verify(auth)
    \/ \E auth \in AuthChoices : Logout(auth)
    \/ Health
    \/ \E auth \in Anonymous : Export(auth)
    \/ \E auth \in Anonymous, hasData \in BOOLEAN, entry \in UsersEntries :
           Import(auth, hasData, entry)

SpecAuth == Init /\ [][NextAuth]_vars

\* Logins against the accounts that signups have created; a login is sent
\* when no other request is being handled
NextLogin ==
    \/ \E email \in AuthEmails : SignupStart(email, "secret1", "A")
    \/ \E p \in pending : SignupFinish(p)
    \/ \E email \in Emails \cup {""}, password \in Passwords \cup {""} :
           pending = {} /\ LoginStart(email, password)
    \/ \E p \in pending : LoginFinish(p)

SpecLogin == Init /\ [][NextLogin]_vars

\* Tokens over time: one account, its tokens, and the clock; the signups and
\* logins are handled one at a time
NextToken ==
    \/ pending = {} /\ SignupStart("a@x", "secret1", "A")
    \/ \E p \in pending : SignupFinish(p)
    \/ pending = {} /\ LoginStart("a@x", "secret1")
    \/ \E p \in pending : LoginFinish(p)
    \/ \E auth \in AuthChoices : Verify(auth)
    \/ \E auth \in AuthChoices, key \in StoreKeys : GetData(auth, key)
    \/ Tick

SpecToken == Init /\ [][NextToken]_vars

\* The browser: the session manager and the fetch layer; the server is what
\* answers
InitClient == ServerInit /\ ClientInit

NextClient ==
    \/ Mount
    \/ \E ok \in BOOLEAN : RestoreReturn(ok)
    \/ \E kind \in {"login", "signup"} : Submit(kind)
    \/ \E c \in calls, cred \in Creds \cup {NoSession} : SubmitReturn(c, cred)
    \/ logout
    \/ VerifyTokenCall
    \/ \E c \in calls, ok \in BOOLEAN : VerifyTokenReturn(c, ok)
    \/ Reload
    \/ \E fn \in ApiFunctions, key \in StoreKeys : ApiCall(fn, key)
    \/ \E c \in calls, status \in Statuses, data \in KeyValues \cup {"undefined"} :
           ApiReturn(c, status, data)

SpecClient == InitClient /\ [][NextClient]_vars

\* Signups and the logins that follow them, all of them concurrent: the
\* requests of one client are handled between those of another
NextSignupLogin ==
    \/ \E email \in AuthEmails : SignupStart(email, "secret1", "A")
    \/ \E p \in pending : SignupFinish(p)
    \/ \E email \in AuthEmails : LoginStart(email, "secret1")
    \/ \E p \in pending : LoginFinish(p)

SpecSignupLogin == Init /\ [][NextSignupLogin]_vars


\* The store of one or two identities under logical keys that differ in a
\* character outside [a-zA-Z0-9_-], and values that include null
NextKeys ==
    \/ \E email \in StoreEmails : pending = {} /\ SignupStart(email, "secret1", "A")
    \/ \E p \in pending : SignupFinish(p)
    \/ \E auth \in AuthChoices, key \in KeyNames : GetData(auth, key)
    \/ \E auth \in AuthChoices, key \in KeyNames, data \in KeyValues \cup {"undefined"} :
           PutData(auth, key, data)
    \/ \E auth \in AuthChoices, key \in KeyNames : DeleteData(auth, key)
    \/ \E auth \in AuthChoices : ListKeys(auth)

SpecKeys == Init /\ [][NextKeys]_vars


\* One account and one key, with the process dying in the handlers that
\* write; signups and logins are handled one at a time
CrashEntries == {e \in ImportEntries : e.content \in {Data("v1"), UsersContent(EmptyUsers)}}

NextCrash ==
    \/ pending = {} /\ SignupStart("a@x", "secret1", "A")
    \/ \E p \in pending : SignupFinish(p)
    \/ \E p \in pending, stage \in Stages : SignupCrash(p, stage)
    \/ pending = {} /\ LoginStart("a@x", "secret1")
    \/ \E p \in pending : LoginFinish(p)
    \/ \E auth \in issued : Verify(auth)
    \/ \E auth \in issued, key \in StoreKeys : GetData(auth, key)
    \/ \E auth \in issued, key \in StoreKeys : PutData(auth, key, "v2")
    \/ \E auth \in issued, key \in StoreKeys, stage \in Stages :
           PutCrash(auth, key, "v2", stage)
    \/ \E hasData \in BOOLEAN, entry \in CrashEntries : Import(NoToken, hasData, entry)
    \/ \E entry \in CrashEntries : ImportCrash(NoToken, entry)

SpecCrash == Init /\ [][NextCrash]_vars


\* Verification against a credential store that signups fill (one at a
\* time) and that the unauthenticated import replaces or leaves unreadable
NextVerify ==
    \/ \E email \in StoreEmails : pending = {} /\ SignupStart(email, "secret1", "A")
    \/ \E p \in pending : SignupFinish(p)
    \/ \E auth \in AuthChoices : Verify(auth)
    \/ \E hasData \in BOOLEAN, entry \in UsersEntries : Import(NoToken, hasData, entry)
    \/ \E entry \in UsersEntries : ImportCrash(NoToken, entry)

SpecVerify == Init /\ [][NextVerify]_vars


\* Signups, concurrent, with emails that differ in case only and with
\* passwords that are empty, of 5 and of 6 characters
SignupPasswords == {"", "short", "123456"}

NextSignup ==
    \/ \E email \in AuthEmails \cup {""}, password \in SignupPasswords, name \in Names \cup {""} :
           SignupStart(email, password, name)
    \/ \E p \in pending : SignupFinish(p)

SpecSignup == Init /\ [][NextSignup]_vars


\* Signups with different emails, handled concurrently
DifferentEmails == {"a@x", "b@x", "c@x"}

NextSignups ==
    \/ \E email \in DifferentEmails, name \in Names \cup {""} :
           SignupStart(email, "secret1", name)
    \/ \E p \in pending : SignupFinish(p)

SpecSignups == Init /\ [][NextSignups]_vars


\* The workout view and the backend of its hooks, every request answered.
\* What an earlier visit left in the backend: a finished workout in the
\* history, a workout that was going on
StoredBefore ==
    {[h \in Hooks |-> IF h = WorkoutSessions THEN s ELSE a] :
        s \in {Null, <<[NewSession(0, <<1>>) EXCEPT !.done = <<1>>, !.status = "completed"]>>},
        a \in {Null, <<[NewSession(0, <<2, 1>>) EXCEPT !.done = <<1, 0>>]>>}}

InitView ==
    /\ ServerInit
    /\ localStorage = NoSession
    /\ authUser = "null"
    /\ authToken = "null"
    /\ isLoading = TRUE
    /\ rsPc = "start"
    /\ calls = {}
    /\ sent = NoRequest
    /\ returned = NoReturn
    /\ mounted = FALSE
    /\ state = [h \in Hooks |-> Null]
    /\ currentExerciseIndex = 0
    /\ fetches = {}
    /\ persisted \in StoredBefore
    /\ started = 0
    /\ hookHist = [h \in Hooks |-> NeverSet]
    /\ handled = NoHandled

NextWorkout ==
    \/ MountView
    \/ \E r \in fetches : Deliver(r, TRUE)
    \/ \E r \in fetches : LoadReturn(r)
    \/ \E plan \in Plans : startWorkout(plan)
    \/ completeSet
    \/ NextButton
    \/ PreviousButton

SpecWorkout == InitView /\ [][NextWorkout]_vars


\* The hook under a caller that calls a setter several times in one event
\* handler, with values and with updater functions, when the requests of the
\* handler before have been handled
MaxBatch == 2

MaxItems == 2

\* setPlans((current) => [...current, newPlan]) of MIGRATION.md, and a value
Item == NewSession(1, <<1>>)

Updates(h) == {Plain(Null), AppendFn(<<Item>>)}

Batches(h) == UNION {[1..n -> Updates(h)] : n \in 1..MaxBatch}

Act(h, as) ==
    /\ mounted
    /\ SetterCalls("act", [NoCalls EXCEPT ![h] = as])
    /\ \A r \in fetches' : Len(r.value) <= MaxItems
    /\ UNCHANGED <<currentExerciseIndex, started>>

NextHook ==
    \/ MountView
    \/ \E r \in fetches : Deliver(r, TRUE)
    \/ \E r \in fetches : LoadReturn(r)
    \/ AllSaved /\ \E as \in Batches(WorkoutSessions) : Act(WorkoutSessions, as)

SpecHook == InitView /\ [][NextHook]_vars


\* The workout view when the user acts after the saves of the handler before
\* have been handled; the loads are on their way at any time
NextSets ==
    \/ MountView
    \/ \E r \in fetches : Deliver(r, TRUE)
    \/ \E r \in fetches : LoadReturn(r)
    \/ AllSaved /\ \E plan \in Plans : startWorkout(plan)
    \/ AllSaved /\ completeSet
    \/ AllSaved /\ NextButton
    \/ AllSaved /\ PreviousButton

SpecSets == InitView /\ [][NextSets]_vars


\* The workout view when requests can fail: a network error, a 401, a 500
NextOffline ==
    \/ MountView
    \/ \E r \in fetches, ok \in BOOLEAN : Deliver(r, ok)
    \/ \E r \in fetches : LoadReturn(r)
    \/ AllSaved /\ \E plan \in Plans : startWorkout(plan)
    \/ AllSaved /\ completeSet
    \/ AllSaved /\ NextButton
    \/ AllSaved /\ PreviousButton

SpecOffline == InitView /\ [][NextOffline]_vars


\* The mounted view left alone: no setter is called, the key does not change
NextLoads ==
    \/ MountView
    \/ \E r \in fetches, ok \in BOOLEAN : Deliver(r, ok)
    \/ \E r \in fetches : LoadReturn(r)

SpecLoads == InitView /\ [][NextLoads]_vars

\* every request is handled by the backend and every response is delivered
SpecLoadsLive ==
    /\ SpecLoads
    /\ WF_vars(\E r \in fetches, ok \in BOOLEAN : Deliver(r, ok))
    /\ WF_vars(\E r \in fetches : LoadReturn(r))


-----------------------------------------------------------------------------
(* Properties of the server *)

DataOps == {"get", "put", "delete", "keys", "export", "import"}

\* C1: every record a data request (get, put, delete, keys, export, import)
\* reads, writes or deletes has a physical name that starts with the owner
\* prefix of the identity resolved from the request's own bearer token.
C1_OwnRecordsOnly ==
    last.op \in DataOps =>
        \A f \in last.touched : last.uid # <<>> /\ StartsWith(f, Prefix(last.uid))

\* C2: what get(A, k) returns is what A's own authenticated set and delete
\* requests left under A's k: the value of A's last set, or not found after
\* A's delete or before A's first set; no other request changes it.
C2_OwnOperationsOnly ==
    (last.op = "get" /\ last.ran) =>
        LET f == getKeyPath(ScopedKey(last.uid, last.key))
        IN  IF f \in DOMAIN own
            THEN last.resp.status = 200 /\ last.resp.data = own[f]
            ELSE last.resp.status = 404

\* C3: the credential store never holds two identities with the same
\* lowercase-normalised email.
C3_OneIdentityPerEmail ==
    \A i, j \in DOMAIN loadUsers :
        toLowerCase(loadUsers[i].email) = toLowerCase(loadUsers[j].email) => i = j

\* C4: a data request without a bearer token is answered 401 "missing token",
\* one with a token that does not verify is answered 401 "invalid token", and
\* in both cases the handler does not run and touches no record.
C4_NoAccessWithoutToken ==
    (last.op \in DataOps \cup {"verify"} /\ ~ValidAt(last.auth, last.at)) =>
        /\ last.resp.status = 401
        /\ last.resp.error = IF last.auth = NoToken THEN "Missing authorization token"
                             ELSE "Invalid or expired token"
        /\ ~last.ran
        /\ last.touched = {}

\* C5: a login that fails because the password is wrong for a registered email
\* gets the same answer (status and body) as a login that fails because the
\* email is not registered.
C5_SameLoginFailure ==
    \A x, y \in loginFails :
        (x.password = y.password \/ (x.password # "" /\ y.password # "")) => x.resp = y.resp

C5_BothFailuresSeen ==
    \E x, y \in loginFails :
        /\ x.cause = "wrong password" /\ y.cause = "no such user"
        /\ x.password # "" /\ y.password # ""
        /\ last.op = "login" /\ last.resp.status = 401

\* C6: no response carries a passwordHash: neither the data nor the export of
\* a response contains records of the credential store (the user object of a
\* response has the fields id, email, name and createdAt only).
C6_NoPasswordHashInResponse ==
    /\ DOMAIN last.resp.data.users = {}
    /\ \A k \in DOMAIN last.resp.export : DOMAIN last.resp.export[k].users = {}
    /\ DOMAIN last.resp.user = {"id", "email", "name", "createdAt"}

\* C7: an identity of the credential store is never changed or removed: each
\* step leaves every stored identity as it was, and a step that changes the
\* store adds exactly one identity.
C7_IdentitiesImmutable ==
    [][/\ \A id \in DOMAIN loadUsers :
              id \in DOMAIN loadUsers' /\ loadUsers'[id] = loadUsers[id]
       /\ Cardinality(DOMAIN loadUsers') <= Cardinality(DOMAIN loadUsers) + 1]_vars

\* C10: a token issued at day t for identity I carries I's id; presented at
\* any time before t + 7 days it passes the verification and resolves to I's
\* id, and presented at any time after t + 7 days it is answered 401 "invalid
\* or expired token".
C10_TokenLifetime ==
    /\ (last.op \in {"signup", "login"} /\ last.resp.token # NoToken) =>
           /\ last.resp.token \in issued
           /\ last.resp.token.userId = last.resp.user.id
           /\ last.resp.token.iat = last.at
    /\ (last.op \in {"verify", "get"} /\ last.auth \in issued) =>
           /\ last.at < last.auth.iat + 7 =>
                  last.resp.status # 401 /\ last.ran /\ last.uid = last.auth.userId
           /\ last.at > last.auth.iat + 7 =>
                  /\ last.resp.status = 401
                  /\ last.resp.error = "Invalid or expired token"
                  /\ ~last.ran

C10_ExpiredTokenRefused ==
    /\ last.op = "verify"
    /\ last.auth \in issued
    /\ last.at > last.auth.iat + 7
    /\ last.resp.status = 401

-----------------------------------------------------------------------------
(* Properties of the client *)

\* C8: when the verification of the cached token fails during the restore of
\* the session, the client ends logged out: user and token in memory are
\* null, isAuthenticated is false and the cache is empty.
C8_FailedRestoreLogsOut ==
    [][(rsPc = "verifying" /\ rsPc' = "failed") =>
           /\ authUser' = "null"
           /\ authToken' = "null"
           /\ ~isAuthenticated'
           /\ localStorage' = NoSession]_vars

\* C9: each request that the fetch layer sends to the key-value endpoints
\* carries the token that is held at that moment as its bearer credential,
\* and carries none when no token is held.
C9_BearerAttached ==
    [][(\E c \in calls' \ calls : c.kind \in ApiFunctions) =>
           sent'.authorization = localStorage.token]_vars

-----------------------------------------------------------------------------
(* Signup, login and verification *)

\* C11: a login with the email and password of a signup that had succeeded
\* when the login was received succeeds (200) and returns the identity that
\* this signup created, whatever other requests were handled in between.
C11_LoginAfterSignup ==
    last.op = "login" =>
        \A s \in last.known :
            (s.email = last.email /\ s.password = last.password) =>
                last.resp.status = 200 /\ last.resp.user.id = s.id

-----------------------------------------------------------------------------
(* The store under several logical keys *)

\* C12: a get of (id, k) that follows a completed set of (id, k) to v, with
\* no set or delete of (id, k) in between, is answered 200 with a value equal
\* to v (null, false, 0 and the empty string included).
C12_GetReturnsLastSet ==
    (last.op = "get" /\ last.ran /\ <<last.uid, last.key>> \in DOMAIN stored) =>
        /\ last.resp.status = 200
        /\ last.resp.data = Value(stored[<<last.uid, last.key>>])


\* what a get of (uid, key) reads: the content of the physical key, if any
Lookup(uid, key) ==
    LET filePath == getKeyPath(ScopedKey(uid, key))
    IN  IF filePath \in DOMAIN files THEN files[filePath] ELSE NoContent

\* C13: a set or delete of one logical key leaves what a get of every other
\* logical key of the same identity reads as it was, and the two logical keys
\* have different physical keys.
C13_KeysIndependent ==
    [][\A n \in 1..MaxUsers, k1 \in KeyNames, k2 \in KeyNames :
           (/\ last'.op \in {"put", "delete"} /\ last'.ran
            /\ last'.uid = IdOf(n) /\ last'.key = k1 /\ k2 # k1) =>
               /\ Lookup(IdOf(n), k2)' = Lookup(IdOf(n), k2)
               /\ getKeyPath(ScopedKey(IdOf(n), k2)) # getKeyPath(ScopedKey(IdOf(n), k1))]_vars

\* C15: the keys request of an identity returns exactly the logical keys that
\* the identity has stored at that moment (set and not deleted since): no key
\* of another identity, no unscoped record, no physical name.
C15_ListsStoredKeys ==
    (last.op = "keys" /\ last.ran) =>
        last.resp.keys = {x[2] : x \in {y \in DOMAIN stored : y[1] = last.uid}}

-----------------------------------------------------------------------------
(* The fetch layer's results *)

\* C14: what the caller of get is given for a key that was never written
\* (404) is a not-found signal that differs from what it is given for every
\* other response: for a stored null (200 with data null) and for an error.
C14_NotFoundDistinct ==
    (returned.fn = "apiGet" /\ returned.status # 404) =>
        returned.result # ApiResult("apiGet", 404, "undefined")

-----------------------------------------------------------------------------
(* Crashes and unreadable files *)

\* C16: a request in which the process dies while it writes leaves every
\* stored record (every .json file) whole and as it was: the write went to a
\* temporary file that only a completed rename puts in the record's place.
C16_CrashLeavesRecords ==
    [][last'.resp = Crashed =>
           \A f \in DOMAIN files' :
               EndsWith(f, JsonExt) =>
                   /\ Readable(files'[f])
                   /\ f \in DOMAIN files /\ files'[f] = files[f]]_vars


\* the credential store file exists and cannot be read or parsed
UsersUnreadable == usersFilePath \in DOMAIN files /\ ~Readable(files[usersFilePath])

\* C17: when login, signup or verify reads the credential store and the read
\* fails (the file cannot be read or parsed), the caller is answered 500 and
\* the handler writes nothing.
C17_StoreFailureIs500 ==
    [][(/\ UsersUnreadable
        /\ last' # last
        /\ last'.op \in {"login", "signup", "verify"}
        /\ usersFilePath \in last'.touched) =>
           last'.resp.status = 500 /\ files' = files]_vars

-----------------------------------------------------------------------------
(* Verification and signup *)

\* C18: a verify request with a token that passes the signature and expiry
\* check is answered from the credential store as it is at that moment: 404
\* "User not found" when the store does not hold the token's identity (also
\* when it held it at an earlier verification), 200 with the stored identity
\* when it does.
C18_VerifyChecksStore ==
    (last.op = "verify" /\ last.ran) =>
        IF last.uid \in DOMAIN loadUsers
        THEN last.resp.status = 200 /\ last.resp.user = Public(loadUsers[last.uid])
        ELSE last.resp.status = 404 /\ last.resp.error = "User not found"

C18_VerifyOfRemovedIdentity ==
    /\ last.op = "verify" /\ last.ran
    /\ last.auth \in issued
    /\ \E s \in signups : s.id = last.uid
    /\ last.uid \notin DOMAIN loadUsers
    /\ last.resp.status = 404


\* the lowercase form of an email, of the emails of the model
LowerForm(email) == IF email = "A@x" THEN "a@x" ELSE email

\* the credential store holds an identity whose email is the lowercase form
EmailRegistered(email) ==
    \E id \in DOMAIN loadUsers : loadUsers[id].email = LowerForm(email)

\* C19 as stated: every signup whose email, in lowercase, is registered when
\* the request is received is answered 409 "User already exists", gets no
\* token and leaves the credential store as it was.
C19_TakenEmailRefused ==
    [][/\ \A p \in pending' \ pending : p.kind = "signup" => ~EmailRegistered(p.email)
       /\ (/\ last'.op = "signup" /\ last' # last /\ pending' = pending
           /\ EmailRegistered(last'.email)) =>
              /\ last'.resp.status = 409
              /\ last'.resp.error = "User already exists"
              /\ last'.resp.token = NoToken
              /\ files' = files /\ issued' = issued]_vars

\* C19, amended: a signup with a name and a password of at least 6
\* characters whose email, in lowercase, is registered when the request is
\* received is answered 409 "User already exists", gets no token and leaves
\* the credential store as it was (a missing field or a short password is
\* answered 400 before the store is looked at).
C19_TakenEmailRefusedWhenValid ==
    [][/\ \A p \in pending' \ pending : p.kind = "signup" => ~EmailRegistered(p.email)
       /\ (/\ last'.op = "signup" /\ last' # last /\ pending' = pending
           /\ EmailRegistered(last'.email)
           /\ last'.name # "" /\ Len(last'.password) >= 6) =>
              /\ last'.resp.status = 409
              /\ last'.resp.error = "User already exists"
              /\ last'.resp.token = NoToken
              /\ files' = files /\ issued' = issued]_vars

C19_CaseVariantRefused ==
    /\ last.op = "signup" /\ last.email = "A@x"
    /\ \E id \in DOMAIN loadUsers : loadUsers[id].email = "a@x"
    /\ last.resp.status = 409
    /\ last.resp.token = NoToken


\* C20 as stated: a signup with a password shorter than 6 characters, the
\* empty password included, is answered 400 with the weak-password error,
\* creates no identity and gets no token; a password of 6 characters is not
\* refused by the length policy.
C20_ShortPasswordIsWeak ==
    [][/\ \A p \in pending' \ pending : p.kind = "signup" => Len(p.password) >= 6
       /\ (last'.op = "signup" /\ last' # last) =>
              /\ Len(last'.password) < 6 =>
                     /\ last'.resp.status = 400
                     /\ last'.resp.error = "Password must be at least 6 characters"
                     /\ last'.resp.token = NoToken /\ last'.resp.user = NoUser
                     /\ files' = files /\ issued' = issued
              /\ Len(last'.password) = 6 =>
                     last'.resp.error # "Password must be at least 6 characters"]_vars

\* C20, amended: a signup with email and name and a password of 1 to 5
\* characters is answered 400 with the weak-password error; a signup with the
\* empty password is answered 400 "Missing required fields", as every signup
\* with a missing field is; every signup with a password shorter than 6
\* characters is answered 400, creates no identity and gets no token; a
\* password of 6 characters is not refused by the length policy.
\* validatePassword reports every password shorter than 6 characters, the
\* empty one included, with the weak-password error.
C20_ShortPasswordRefused ==
    [][/\ \A p \in pending' \ pending : p.kind = "signup" => Len(p.password) >= 6
       /\ (last'.op = "signup" /\ last' # last) =>
              /\ Len(last'.password) < 6 =>
                     /\ last'.resp.status = 400
                     /\ last'.resp.error =
                            IF last'.email = "" \/ last'.password = "" \/ last'.name = ""
                            THEN "Missing required fields"
                            ELSE "Password must be at least 6 characters"
                     /\ last'.resp.token = NoToken /\ last'.resp.user = NoUser
                     /\ files' = files /\ issued' = issued
                     /\ validatePassword(last'.password) =
                            [isValid |-> FALSE,
                             error |-> "Password must be at least 6 characters"]
              /\ Len(last'.password) = 6 =>
                     /\ last'.resp.error # "Password must be at least 6 characters"
                     /\ validatePassword(last'.password).isValid]_vars

C20_FiveRefusedSixAccepted ==
    /\ last.op = "signup" /\ Len(last.password) = 5
    /\ last.resp.status = 400
    /\ last.resp.error = "Password must be at least 6 characters"
    /\ \E s \in signups : Len(s.password) = 6

-----------------------------------------------------------------------------
(* Deleting *)

\* C21: a delete of a logical key that the calling identity does not hold
\* (never set, or deleted since) is answered 200 and changes no stored record
\* of any identity; so is every repetition of it.
C21_DeleteOfAbsentKey ==
    [][\A n \in 1..MaxUsers, k \in KeyNames :
           (/\ last'.op = "delete" /\ last'.ran
            /\ last'.uid = IdOf(n) /\ last'.key = k
            /\ <<IdOf(n), k>> \notin DOMAIN stored) =>
               last'.resp.status = 200 /\ files' = files]_vars

-----------------------------------------------------------------------------
(* The client session *)

\* a session operation (restore, login, signup, verifyToken) is under way
SessionOperationInFlight ==
    \/ rsPc \in {"start", "verifying"}
    \/ \E c \in calls : c.kind \in {"login", "signup", "verify"}

\* C22: whenever no session operation is in flight, the {user, token} in
\* memory and the cached {user, token} are both absent or both present and
\* equal.
C22_MemoryMirrorsCache ==
    ~SessionOperationInFlight => [user |-> authUser, token |-> authToken] = localStorage


\* C29: in every state the user in memory is the identity that the token in
\* memory was issued for, or both are null.
C29_UserMatchesToken ==
    \/ authUser = "null" /\ authToken = "null"
    \/ authToken # "null" /\ authUser = TokenOwner(authToken)

-----------------------------------------------------------------------------
(* Concurrent signups *)

\* C28: every signup that was answered 201 has its identity in the
\* credential store, with its email, whatever other signups were handled
\* while it waited for its hash: no insert is lost.
C28_NoSignupLost ==
    \A s \in signups :
        /\ s.id \in DOMAIN loadUsers
        /\ loadUsers[s.id].email = toLowerCase(s.email)

\* two signups with different emails succeeded, and the one that finished
\* last had been received before the other one finished
C28_OverlappingSignups ==
    /\ last.op = "signup" /\ last.resp.status = 201 /\ last.known = {}
    /\ \E s1, s2 \in signups :
           s1.email # s2.email /\ {s1.id, s2.id} \subseteq DOMAIN loadUsers

-----------------------------------------------------------------------------
(* Properties of the workout view *)

\* the session that finishWorkout appended to the history
Finished == handled.calls[WorkoutSessions][1].value[1]

Occurrences(sessions, s) == Cardinality({i \in 1..Len(sessions) : sessions[i] = s})

\* C23: once finishWorkout has run and the backend has handled every PUT
\* request, in whatever order, the persisted 'workout-sessions' holds the
\* finished session exactly once, with status 'completed', and the persisted
\* 'active-session' is null.
C23_FinishedWorkoutPersisted ==
    (handled.op = "finishWorkout" /\ AllSaved) =>
        /\ Finished.status = "completed"
        /\ Occurrences(persisted[WorkoutSessions], Finished) = 1
        /\ persisted[ActiveSession] = Null


\* C24: after the setter calls of an event handler, values or updater
\* functions, several of them before the next render, the local state and the
\* value sent to the backend last are both the result of applying the calls
\* in order to the value before the first call.
C24_SetterAppliesInOrder ==
    [][\A h \in Hooks :
          (handled'.running /\ handled'.op = "act" /\ handled'.calls[h] # <<>>) =>
              /\ state'[h] = InOrder(handled'.calls[h], state[h])
              /\ handled'.body[h] = InOrder(handled'.calls[h], state[h])]_vars


\* C25: the view moves to the next exercise, or finishes the workout from the
\* last exercise, only when the completed sets of the current exercise are at
\* least the planned sets.
C25_AdvanceNeedsAllSets ==
    [][(handled'.running /\ handled'.op \in {"next", "finishWorkout"}) =>
          /\ state[ActiveSession] # Null
          /\ completedSetsCount >= totalSets]_vars

\* the view moved on from an exercise of two sets, both completed
C25_MovedOnAfterAllSets ==
    /\ handled.running /\ handled.op = "next"
    /\ currentExerciseIndex = 1
    /\ state[ActiveSession] # Null
    /\ activeSession.plan = <<2, 1>> /\ activeSession.done[1] = 2


\* C26: a value set through the setter is not replaced in the local state by
\* an older value from a load of the same key: when no request of the key is
\* on its way any more, the local state is the value that was set last.
C26_SetValueStays ==
    \A h \in Hooks :
        (hookHist[h].called /\ \A r \in fetches : r.key # h) =>
            state[h] = hookHist[h].value


\* C27: when the backend holds a value for a key and the hook's load of the
\* key failed, no PUT whose value a setter call computed from the default
\* that stands for the failed load replaces the stored value.
C27_FailedLoadLosesNothing ==
    [][\A r \in fetches :
          (/\ r.method = "PUT" /\ r.fromDefault
           /\ r \notin fetches'
           /\ persisted[r.key] # Null) =>
              persisted'[r.key] = persisted[r.key]]_vars


\* C30: with no setter calls and no key change, the mounted hooks send only
\* a bounded number of load requests: from some point on no GET is on its way
\* and none is sent any more, whatever the default value is.
C30_LoadsSettle == <>[](\A r \in fetches : r.method # "GET")


====
